---- MODULE Spec2Model ----
(***************************************************************************)
(* Model of music.py: the text sanitizer, the tag reader, the path planner *)
(* and executor (unflatten_track_file), the batch runner                   *)
(* (mutagen_dialect_unflatten) and the extension repair                    *)
(* (fix_missing_file_extensions).                                          *)
(*                                                                         *)
(* Text is a sequence of one-character strings, so that strip, replace,    *)
(* endswith and os.path.join are computed character by character.          *)
(***************************************************************************)
EXTENDS Integers, Sequences, FiniteSets, TLC

VARIABLES
    san_pc, san_raw, san_once, san_twice,      \* sanitizer applied once and twice
    plan_pc, plan_tags, plan_out,              \* path planning of one tag set
    fs, os_name, next_id,                      \* the filesystem, the platform, next file identity
    fs0,                                       \* the filesystem when the running operation began
    x_pc, call, prev, resupplied, n_calls,     \* direct calls of unflatten_track_file
    \* mutagen_dialect_unflatten: its locals, the entries of files not yet
    \* visited by the loop, what was logged, and the exception that left it
    b_pc, dry_run, files, todo, count, jpg_count, file_existed_count,
    initial_count, error_log, summary, exc, last_file, last_ret,
    \* fix_missing_file_extensions: the entries its three loops have not
    \* visited yet, the directory paths p and a, and the pairs printed
    r_pc, r_dry, r_dirs, r_p, r_albums, r_a, r_tracks, reported, r_exc

sanVars  == <<san_pc, san_raw, san_once, san_twice>>
planVars == <<plan_pc, plan_tags, plan_out>>
fsVars   == <<fs, os_name, next_id, fs0>>
execVars == <<x_pc, call, prev, resupplied, n_calls>>
batchVars == <<b_pc, dry_run, files, todo, count, jpg_count, file_existed_count,
               initial_count, error_log, summary, exc, last_file, last_ret>>
repVars  == <<r_pc, r_dry, r_dirs, r_p, r_albums, r_a, r_tracks, reported, r_exc>>
vars     == <<sanVars, planVars, fsVars, execVars, batchVars, repVars>>

----------------------------------------------------------------------------
(* Bounds *)
MaxLen    == 3      \* longest raw text fed to the sanitizer
MaxPieces == 3      \* album texts are built from at most this many pieces
MaxTracks == 2      \* audio files in the directory handed to direct calls
MaxCalls  == 3      \* direct calls of unflatten_track_file in one run
MaxAudio  == 3      \* audio files in the directory of a batch run
MaxImages == 2      \* image files beside a text file in the directory of a batch run, plus one
MaxAlbums == 2      \* album directories in the tree handed to the repair
MaxLeaves == 2      \* files in one album directory of that tree

----------------------------------------------------------------------------
(* Module constants of music.py *)
MUSIC_DIR   == <<"R">>
ALBUM_TITLE == "TALB"
ARTIST      == "TPE1"
TRACK_TITLE == "TIT2"

SEP         == "/"
MP3         == <<"m", "p", "3">>
DOT_MP3     == <<".", "m", "p", "3">>
JPG         == <<"j", "p", "g">>
UNKNOWN_ALBUM ==
    <<"U","n","k","n","o","w","n"," ","A","l","b","u","m">>

----------------------------------------------------------------------------
(* str methods *)
IsSpace(c) == c = " "

RECURSIVE LStrip(_)
LStrip(s) ==
    IF s # <<>> /\ IsSpace(Head(s)) THEN LStrip(Tail(s)) ELSE s

RECURSIVE RStrip(_)
RStrip(s) ==
    IF s # <<>> /\ IsSpace(s[Len(s)]) THEN RStrip(SubSeq(s, 1, Len(s) - 1)) ELSE s

\* str.strip()
Strip(s) == RStrip(LStrip(s))

\* str.replace(old, new) for a non-empty old: left-to-right, non-overlapping
RECURSIVE Replace(_, _, _)
Replace(s, old, new) ==
    IF Len(s) < Len(old) THEN s
    ELSE IF SubSeq(s, 1, Len(old)) = old
         THEN new \o Replace(SubSeq(s, Len(old) + 1, Len(s)), old, new)
         ELSE <<Head(s)>> \o Replace(Tail(s), old, new)

\* str.endswith(suffix)
EndsWith(s, suffix) ==
    /\ Len(s) >= Len(suffix)
    /\ SubSeq(s, Len(s) - Len(suffix) + 1, Len(s)) = suffix

----------------------------------------------------------------------------
(* sanitize_file_name_text *)
\* variant: the colon is replaced by a slash
fixes_colon_to_slash ==
    << <<<<"/">>, <<"-">>>>, <<<<"?">>, <<>>>>,
       <<<<":">>, <<"/">>>>, <<<<"\"">>, <<>>>> >>

fixes == << <<<<"/">>, <<"-">>>>, <<<<"?">>, <<>>>>,
            <<<<":">>, <<"-">>>>, <<<<"\"">>, <<>>>> >>

RECURSIVE ApplyFixes(_, _)
ApplyFixes(s, i) ==
    IF i > Len(fixes) THEN s
    ELSE ApplyFixes(Replace(s, fixes[i][1], fixes[i][2]), i + 1)

\* variant: the text is not stripped
sanitize_without_strip(raw) == ApplyFixes(raw, 1)

sanitize_file_name_text(raw) == ApplyFixes(Strip(raw), 1)

\* get_tag_value: tags is a function from the tag keys present to raw text
get_tag_value(tags, tag_key) ==
    IF tag_key \notin DOMAIN tags THEN <<>>
    ELSE sanitize_file_name_text(tags[tag_key])

----------------------------------------------------------------------------
(* os.path.join: a later component starting with the separator replaces    *)
(* the path; a component is appended directly when the path is empty or    *)
(* already ends with the separator, and after a separator otherwise.       *)
(* Sanitized components never hold "/" or ":", and no text of the model    *)
(* holds a backslash, so the posix and nt flavours agree up to the         *)
(* separator character.                                                    *)
join2(path, b) ==
    IF b # <<>> /\ Head(b) = SEP THEN b
    ELSE IF path = <<>> \/ path[Len(path)] = SEP THEN path \o b
    ELSE path \o <<SEP>> \o b

RECURSIVE os_path_join(_)
os_path_join(parts) ==
    IF Len(parts) = 1 THEN parts[1]
    ELSE join2(os_path_join(SubSeq(parts, 1, Len(parts) - 1)), parts[Len(parts)])

\* ".".join([a, b])
DotJoin(a, b) == a \o <<".">> \o b

----------------------------------------------------------------------------
(* unflatten_track_file, lines 69-85: the names and paths derived from the *)
(* tags.  exc is "KeyError" when the artist key is absent.                 *)
NoPlan == [exc |-> "KeyError", artist |-> <<>>, album_title |-> <<>>,
           track_title |-> <<>>, artist_dir |-> <<>>, album_dir |-> <<>>,
           track_new_path |-> <<>>]

\* variant: ".mp3" is removed from the album before the default is chosen
unflatten_paths_default_last(tags, new_root_dir) ==
    IF ARTIST \notin DOMAIN tags THEN NoPlan
    ELSE
    LET artist      == sanitize_file_name_text(tags[ARTIST])
        album0      == Replace(get_tag_value(tags, ALBUM_TITLE), DOT_MP3, <<>>)
        track_title == get_tag_value(tags, TRACK_TITLE)
        album_title == IF album0 # <<>> THEN album0 ELSE UNKNOWN_ALBUM
        artist_dir  == os_path_join(<<new_root_dir, artist>>)
    IN  [exc            |-> "none",
         artist         |-> artist,
         album_title    |-> album_title,
         track_title    |-> track_title,
         artist_dir     |-> artist_dir,
         album_dir      |-> os_path_join(<<artist_dir, album_title>>),
         track_new_path |-> os_path_join(<<new_root_dir, artist, album_title,
                                           DotJoin(track_title, MP3)>>)]

unflatten_paths(tags, new_root_dir) ==
    IF ARTIST \notin DOMAIN tags THEN NoPlan
    ELSE
    LET artist      == sanitize_file_name_text(tags[ARTIST])
        album0      == get_tag_value(tags, ALBUM_TITLE)
        track_title == get_tag_value(tags, TRACK_TITLE)
        album1      == IF album0 # <<>> THEN album0 ELSE UNKNOWN_ALBUM
        album_title == Replace(album1, DOT_MP3, <<>>)
        artist_dir  == os_path_join(<<new_root_dir, artist>>)
    IN  [exc            |-> "none",
         artist         |-> artist,
         album_title    |-> album_title,
         track_title    |-> track_title,
         artist_dir     |-> artist_dir,
         album_dir      |-> os_path_join(<<artist_dir, album_title>>),
         track_new_path |-> os_path_join(<<new_root_dir, artist, album_title,
                                           DotJoin(track_title, MP3)>>)]

----------------------------------------------------------------------------
(* A tag mapping: a function from the keys present to their raw text.      *)
NoTag == <<"<absent>">>

MkTags(artist, album, title) ==
    LET val(k) == IF k = ARTIST THEN artist
                  ELSE IF k = ALBUM_TITLE THEN album ELSE title
    IN  [k \in {j \in {ARTIST, ALBUM_TITLE, TRACK_TITLE} : val(j) # NoTag}
            |-> val(k)]

----------------------------------------------------------------------------
(* The filesystem.  fs maps each existing path, as the sequence of its     *)
(* components, to a node: a directory, or a file with an identity (id) and *)
(* a content (meta, which is what mutagen reads the tags from).  os_name   *)
(* is the platform, which decides what os.rename does to an existing       *)
(* destination.                                                            *)
RECURSIVE Components(_)
Components(path) ==
    IF path = <<>> THEN <<>>
    ELSE IF Head(path) = SEP THEN Components(Tail(path))
    ELSE LET n == IF \E i \in 1..Len(path) : path[i] = SEP
                  THEN (CHOOSE i \in 1..Len(path) :
                          /\ path[i] = SEP
                          /\ \A j \in 1..(i - 1) : path[j] # SEP) - 1
                  ELSE Len(path)
         IN  <<SubSeq(path, 1, n)>> \o Components(SubSeq(path, n + 1, Len(path)))

Parent(comps) == SubSeq(comps, 1, Len(comps) - 1)

DirNode          == [kind |-> "dir", id |-> 0, meta |-> "-"]
FileNode(i, m)   == [kind |-> "file", id |-> i, meta |-> m]

IsDirAt(fs_, comps)  == comps \in DOMAIN fs_ /\ fs_[comps].kind = "dir"
IsFileAt(fs_, comps) == comps \in DOMAIN fs_ /\ fs_[comps].kind = "file"

\* os.path.exists: a path with a trailing separator names a directory only
os_path_exists(fs_, path) ==
    /\ Components(path) \in DOMAIN fs_
    /\ (path # <<>> /\ path[Len(path)] = SEP) => IsDirAt(fs_, Components(path))

\* os.path.isdir
os_path_isdir(fs_, path) == IsDirAt(fs_, Components(path))

\* os.listdir of an existing directory: the names of its entries
os_listdir(fs_, path) ==
    {q[Len(q)] : q \in {r \in DOMAIN fs_ : r # <<>> /\ Parent(r) = Components(path)}}

WithNode(fs_, comps, node) ==
    [q \in DOMAIN fs_ \cup {comps} |-> IF q = comps THEN node ELSE fs_[q]]

WithoutNode(fs_, comps) == [q \in DOMAIN fs_ \ {comps} |-> fs_[q]]

\* os.mkdir: fails when the path exists or its parent is not a directory
os_mkdir(fs_, path) ==
    LET c == Components(path)
    IN  IF c \in DOMAIN fs_ \/ ~IsDirAt(fs_, Parent(c))
        THEN [fs |-> fs_, err |-> TRUE]
        ELSE [fs |-> WithNode(fs_, c, DirNode), err |-> FALSE]

\* os.rename of a file: fails when the source is missing or the parent of
\* the destination is not a directory; an existing destination file is
\* replaced on posix and is an error (FileExistsError) on nt; a destination
\* that is a directory is an error on both.
os_rename(fs_, src, dst, plat) ==
    LET s == Components(src)
        d == Components(dst)
    IN  IF ~IsFileAt(fs_, s) \/ ~IsDirAt(fs_, Parent(d))
        THEN [fs |-> fs_, err |-> TRUE]
        ELSE IF s = d THEN [fs |-> fs_, err |-> FALSE]
        ELSE IF d \in DOMAIN fs_ /\ (plat = "nt" \/ fs_[d].kind = "dir")
        THEN [fs |-> fs_, err |-> TRUE]
        ELSE [fs |-> WithNode(WithoutNode(fs_, s), d, fs_[s]), err |-> FALSE]

\* confirm_or_create_dir
confirm_or_create_dir(fs_, dir_path) ==
    IF ~os_path_exists(fs_, dir_path) THEN os_mkdir(fs_, dir_path)
    ELSE [fs |-> fs_, err |-> FALSE]

----------------------------------------------------------------------------
(* mutagen.File: what the metadata library returns for a file content.     *)
(* "A" and "B" carry full tags, "NoArtist" lacks the artist key, "NoTags"  *)
(* is an audio file without a tag block (tags is None) and "None" is a     *)
(* file mutagen cannot identify (File returns None).                       *)
TrackKinds == <<"A", "B", "NoArtist", "NoTags", "None">>

TagsOfKind(meta) ==
    CASE meta = "A"        -> MkTags(<<"a">>, <<"x">>, <<"t">>)
      [] meta = "B"        -> MkTags(<<" ", "b">>, NoTag, <<"t", "?">>)
      [] meta = "NoArtist" -> MkTags(NoTag, <<"x">>, <<"t">>)
      [] OTHER             -> MkTags(NoTag, NoTag, NoTag)

mutagen_File(fs_, path) ==
    LET c == Components(path)
    IN  IF ~IsFileAt(fs_, c) THEN [obj |-> "raise", tags |-> <<>>]
        ELSE IF fs_[c].meta \in {"A", "B", "NoArtist"}
             THEN [obj |-> "File", tags |-> TagsOfKind(fs_[c].meta)]
        ELSE IF fs_[c].meta = "NoTags" THEN [obj |-> "NoTags", tags |-> <<>>]
        ELSE [obj |-> "None", tags |-> <<>>]

----------------------------------------------------------------------------
(* unflatten_track_file: ret is "True" or "False", or the exception that   *)
(* leaves the function.                                                    *)
\* the directory creations and the rename of lines 90-92
make_dirs_and_rename(fs_, p, original_track_path, plat) ==
    LET after_rename(m) ==
            [fs |-> m.fs, ret |-> IF m.err THEN "OSError" ELSE "True"]
        after_album(m) ==
            IF m.err THEN after_rename(m)
            ELSE after_rename(os_rename(m.fs, original_track_path,
                                        p.track_new_path, plat))
        after_artist(m) ==
            IF m.err THEN after_rename(m)
            ELSE after_album(confirm_or_create_dir(m.fs, p.album_dir))
    IN  after_artist(confirm_or_create_dir(fs_, p.artist_dir))

\* variant: the existence of the target is not checked
move_without_check(fs_, p, original_track_path, dry, plat) ==
    IF dry THEN [fs |-> fs_, ret |-> "True"]
    ELSE make_dirs_and_rename(fs_, p, original_track_path, plat)

\* variant: the test of dry_run is inverted
move_when_dry(fs_, p, original_track_path, dry, plat) ==
    IF os_path_exists(fs_, p.track_new_path) THEN [fs |-> fs_, ret |-> "False"]
    ELSE IF ~dry THEN [fs |-> fs_, ret |-> "True"]
    ELSE make_dirs_and_rename(fs_, p, original_track_path, plat)

\* variant: only the rename is skipped in a dry run
move_dirs_when_dry(fs_, p, original_track_path, dry, plat) ==
    IF os_path_exists(fs_, p.track_new_path) THEN [fs |-> fs_, ret |-> "False"]
    ELSE IF dry
    THEN LET m1 == confirm_or_create_dir(fs_, p.artist_dir)
         IN  [fs |-> IF m1.err THEN m1.fs
                     ELSE confirm_or_create_dir(m1.fs, p.album_dir).fs,
              ret |-> "True"]
    ELSE make_dirs_and_rename(fs_, p, original_track_path, plat)

\* lines 88-96, given the derived paths p
move_or_skip(fs_, p, original_track_path, dry, plat) ==
    IF os_path_exists(fs_, p.track_new_path) THEN [fs |-> fs_, ret |-> "False"]
    ELSE IF dry THEN [fs |-> fs_, ret |-> "True"]
    ELSE make_dirs_and_rename(fs_, p, original_track_path, plat)

unflatten_track_file(fs_, track_file, original_track_path, new_root_dir, dry, plat) ==
    IF track_file.obj = "None" THEN [fs |-> fs_, ret |-> "AttributeError"]
    ELSE IF track_file.obj = "NoTags" THEN [fs |-> fs_, ret |-> "TypeError"]
    ELSE IF ARTIST \notin DOMAIN track_file.tags
    THEN [fs |-> fs_, ret |-> "KeyError"]
    ELSE move_or_skip(fs_, unflatten_paths(track_file.tags, new_root_dir),
                      original_track_path, dry, plat)

----------------------------------------------------------------------------
(* Bounded input texts *)
Alphabet == {" ", "/", "?", ":", "\"", "a"}

RECURSIVE TextsUpTo(_)
TextsUpTo(n) ==
    IF n = 0 THEN {<<>>}
    ELSE LET T == TextsUpTo(n - 1)
         IN  T \cup {Append(t, c) : t \in {u \in T : Len(u) = n - 1}, c \in Alphabet}

Texts == TextsUpTo(MaxLen)

----------------------------------------------------------------------------
(* Specification SpecSan: the sanitizer applied to a text, then to its own *)
(* output.                                                                 *)
PlanIdle == plan_pc = "off" /\ plan_tags = <<>> /\ plan_out = <<>>
FsIdle   == fs = <<>> /\ os_name = "posix" /\ next_id = 0 /\ fs0 = <<>>
ExecIdle == x_pc = "off" /\ call = <<>> /\ prev = <<>> /\ resupplied = FALSE
            /\ n_calls = 0
NoSummary == [TOTAL_FILES |-> -1, MP3_FILES_MOVED |-> -1, JPG_FILES |-> -1,
              MP3_FILES_EXISTED |-> -1]
BatchIdle == /\ b_pc = "off" /\ dry_run = FALSE /\ files = {} /\ todo = {}
             /\ count = 0 /\ jpg_count = 0 /\ file_existed_count = 0
             /\ initial_count = 0 /\ error_log = {} /\ summary = NoSummary
             /\ exc = "-" /\ last_file = <<>> /\ last_ret = "-"
RepIdle == /\ r_pc = "off" /\ r_dry = FALSE /\ r_dirs = {} /\ r_p = <<>>
           /\ r_albums = {} /\ r_a = <<>> /\ r_tracks = {} /\ reported = {}
           /\ r_exc = "-"

InitSan ==
    /\ san_pc = "raw"
    /\ san_raw \in Texts
    /\ san_once = <<>>
    /\ san_twice = <<>>
    /\ PlanIdle /\ FsIdle /\ ExecIdle /\ BatchIdle /\ RepIdle

SanitizeOnce ==
    /\ san_pc = "raw"
    /\ san_once' = sanitize_file_name_text(san_raw)
    /\ san_pc' = "once"
    /\ UNCHANGED <<san_raw, san_twice, planVars, fsVars, execVars, batchVars, repVars>>

SanitizeTwice ==
    /\ san_pc = "once"
    /\ san_twice' = sanitize_file_name_text(san_once)
    /\ san_pc' = "twice"
    /\ UNCHANGED <<san_raw, san_once, planVars, fsVars, execVars, batchVars, repVars>>

NextSan == SanitizeOnce \/ SanitizeTwice

SpecSan == InitSan /\ [][NextSan]_vars

----------------------------------------------------------------------------
(* Specification SpecPlan: the path planning of one tag set.               *)
Pieces == {<<" ">>, <<"a">>, <<".">>, DOT_MP3, MP3, <<"?">>}

RECURSIVE PieceTexts(_)
PieceTexts(n) ==
    IF n = 0 THEN {<<>>}
    ELSE LET T == PieceTexts(n - 1)
         IN  T \cup {t \o q : t \in T, q \in Pieces}

AlbumTexts == PieceTexts(MaxPieces)

Few   == {NoTag, <<"a">>}

DaftPunk    == <<"D","a","f","t"," ","P","u","n","k">>
Discovery   == <<"D","i","s","c","o","v","e","r","y">>
OneMoreTime == <<"O","n","e"," ","M","o","r","e"," ","T","i","m","e">>

PlanInputs ==
    {MkTags(DaftPunk, Discovery, OneMoreTime), MkTags(DaftPunk, NoTag, OneMoreTime)}
    \cup {MkTags(a, b, c) : a \in Texts \cup {NoTag}, b \in Few, c \in Few}
    \cup {MkTags(a, b, c) : a \in Few, b \in Texts \cup AlbumTexts, c \in Few}
    \cup {MkTags(a, b, c) : a \in Few, b \in Few, c \in Texts}

SanIdle == san_pc = "off" /\ san_raw = <<>> /\ san_once = <<>> /\ san_twice = <<>>

InitPlan ==
    /\ plan_pc = "tags"
    /\ plan_tags \in PlanInputs
    /\ plan_out = NoPlan
    /\ SanIdle /\ FsIdle /\ ExecIdle /\ BatchIdle /\ RepIdle

PlanTrack ==
    /\ plan_pc = "tags"
    /\ plan_out' = unflatten_paths(plan_tags, MUSIC_DIR)
    /\ plan_pc' = "planned"
    /\ UNCHANGED <<plan_tags, sanVars, fsVars, execVars, batchVars, repVars>>

NextPlan == PlanTrack

SpecPlan == InitPlan /\ [][NextPlan]_vars

----------------------------------------------------------------------------
(* Initial directory trees.  MUSIC_DIR holds audio files 1.mp3, 2.mp3, ..  *)
(* of the given kinds (file names are arbitrary labels, so kinds are       *)
(* assigned in non-decreasing order), image files, possibly a text file,   *)
(* and one of: nothing else; an already organized track at a/x/t.mp3; a    *)
(* regular file named b, the name of an artist directory.                  *)
DigitChar == <<"1", "2", "3", "4", "5", "6", "7", "8", "9">>

AudioName(i) == <<DigitChar[i]>> \o DOT_MP3
ImageName(i) == <<DigitChar[i], ".">> \o JPG
TextName     == <<"n", ".", "t", "x", "t">>

ROOT == Components(MUSIC_DIR)

KindSeqs(n) ==
    {ks \in UNION {[1..k -> 1..Len(TrackKinds)] : k \in 0..n} :
        \A i \in 1..Len(ks) : \A j \in i..Len(ks) : ks[i] <= ks[j]}

Variants == {"clean", "organized", "blocked"}

MkTree(ks, nimg, txt, variant) ==
    LET audio == [q \in {ROOT \o <<AudioName(i)>> : i \in 1..Len(ks)} |->
                    LET i == CHOOSE i \in 1..Len(ks) : q = ROOT \o <<AudioName(i)>>
                    IN  FileNode(i, TrackKinds[ks[i]])]
        image == [q \in {ROOT \o <<ImageName(i)>> : i \in 1..nimg} |->
                    LET i == CHOOSE i \in 1..nimg : q = ROOT \o <<ImageName(i)>>
                    IN  FileNode(10 + i, "jpg")]
        text  == IF txt THEN (ROOT \o <<TextName>>) :> FileNode(20, "txt") ELSE <<>>
        extra == CASE variant = "organized" ->
                        (ROOT \o <<<<"a">>>>) :> DirNode
                     @@ (ROOT \o <<<<"a">>, <<"x">>>>) :> DirNode
                     @@ (ROOT \o <<<<"a">>, <<"x">>, <<"t">> \o DOT_MP3>>)
                            :> FileNode(30, "A")
                   [] variant = "blocked" ->
                        (ROOT \o <<<<"b">>>>) :> FileNode(31, "txt")
                   [] OTHER -> <<>>
    IN  (ROOT :> DirNode) @@ audio @@ image @@ text @@ extra

\* an identity no file of the tree has
FreshId(fs_) ==
    1 + (CHOOSE m \in {fs_[q].id : q \in DOMAIN fs_} :
            \A q \in DOMAIN fs_ : fs_[q].id <= m)

\* the text of a path given by its components
PathText(comps) == os_path_join(comps)

AudioFiles(fs_) ==
    {q \in DOMAIN fs_ : fs_[q].kind = "file" /\ EndsWith(q[Len(q)], MP3)}

----------------------------------------------------------------------------
(* Specification SpecExec: direct calls of unflatten_track_file on the     *)
(* audio files of a tree, each with the track object mutagen gives for the *)
(* file; between two calls the file just moved may be supplied again at    *)
(* its original path (same content, new identity).                         *)
NoCall == [made |-> FALSE, src |-> <<>>, track |-> <<>>, dry |-> FALSE,
           ret |-> "-", before |-> <<>>, after_resupply |-> FALSE]

InitExec ==
    /\ fs \in {MkTree(ks, 0, FALSE, v) : ks \in KindSeqs(MaxTracks), v \in Variants}
    /\ os_name \in {"posix", "nt"}
    /\ next_id = FreshId(fs)
    /\ fs0 = fs
    /\ x_pc = "on"
    /\ call = NoCall
    /\ prev = NoCall
    /\ resupplied = FALSE
    /\ n_calls = 0
    /\ SanIdle /\ PlanIdle /\ BatchIdle /\ RepIdle

Call ==
    /\ x_pc = "on"
    /\ n_calls < MaxCalls
    /\ \E src \in AudioFiles(fs) : \E dry \in BOOLEAN :
       LET track == mutagen_File(fs, PathText(src))
           out   == unflatten_track_file(fs, track, PathText(src), MUSIC_DIR,
                                         dry, os_name)
       IN  /\ fs' = out.fs
           /\ call' = [made |-> TRUE, src |-> src, track |-> track, dry |-> dry,
                       ret |-> out.ret, before |-> fs,
                       after_resupply |-> resupplied]
    /\ prev' = call
    /\ resupplied' = FALSE
    /\ n_calls' = n_calls + 1
    /\ UNCHANGED <<os_name, next_id, fs0, x_pc, sanVars, planVars, batchVars, repVars>>

Resupply ==
    /\ x_pc = "on"
    /\ call.made /\ ~resupplied
    /\ call.src \notin DOMAIN fs
    /\ fs' = WithNode(fs, call.src, FileNode(next_id, call.before[call.src].meta))
    /\ next_id' = next_id + 1
    /\ resupplied' = TRUE
    /\ UNCHANGED <<os_name, fs0, x_pc, call, prev, n_calls, sanVars, planVars, batchVars, repVars>>

NextExec == Call \/ Resupply

SpecExec == InitExec /\ [][NextExec]_vars

----------------------------------------------------------------------------
(* mutagen_dialect_unflatten, the body of its loop for one entry: c holds  *)
(* the counters and the error log; raised is the exception that leaves the *)
(* function ("-" when none does); ret is the outcome of the call of        *)
(* unflatten_track_file ("-" when the entry is not handed to it).          *)
\* variant: a KeyError is also counted as an existing file
loop_body_error_counted(fs_, file, dry, plat, c) ==
    IF EndsWith(file, MP3) THEN
        LET track_path == os_path_join(<<MUSIC_DIR, file>>)
            track_file == mutagen_File(fs_, track_path)
            out == unflatten_track_file(fs_, track_file, track_path, MUSIC_DIR,
                                        dry, plat)
        IN  IF track_file.obj = "raise"
            THEN [c EXCEPT !.raised = "MutagenError"] @@ [fs |-> fs_, ret |-> "-"]
            ELSE IF out.ret = "KeyError"
            THEN [c EXCEPT !.error_log = @ \cup {file},
                           !.file_existed_count = @ + 1]
                 @@ [fs |-> out.fs, ret |-> out.ret]
            ELSE IF out.ret = "True"
            THEN [c EXCEPT !.count = @ + 1] @@ [fs |-> out.fs, ret |-> out.ret]
            ELSE IF out.ret = "False"
            THEN [c EXCEPT !.file_existed_count = @ + 1]
                 @@ [fs |-> out.fs, ret |-> out.ret]
            ELSE [c EXCEPT !.raised = out.ret] @@ [fs |-> out.fs, ret |-> out.ret]
    ELSE IF EndsWith(file, JPG) THEN
        [c EXCEPT !.jpg_count = @ + 1] @@ [fs |-> fs_, ret |-> "-"]
    ELSE c @@ [fs |-> fs_, ret |-> "-"]

\* variant: every exception is caught and logged
loop_body_catch_all(fs_, file, dry, plat, c) ==
    IF EndsWith(file, MP3) THEN
        LET track_path == os_path_join(<<MUSIC_DIR, file>>)
            track_file == mutagen_File(fs_, track_path)
            out == unflatten_track_file(fs_, track_file, track_path, MUSIC_DIR,
                                        dry, plat)
        IN  IF track_file.obj = "raise"
            THEN [c EXCEPT !.raised = "MutagenError"] @@ [fs |-> fs_, ret |-> "-"]
            ELSE IF out.ret = "KeyError"
            THEN [c EXCEPT !.error_log = @ \cup {file}]
                 @@ [fs |-> out.fs, ret |-> out.ret]
            ELSE IF out.ret = "True"
            THEN [c EXCEPT !.count = @ + 1] @@ [fs |-> out.fs, ret |-> out.ret]
            ELSE IF out.ret = "False"
            THEN [c EXCEPT !.file_existed_count = @ + 1]
                 @@ [fs |-> out.fs, ret |-> out.ret]
            ELSE [c EXCEPT !.error_log = @ \cup {file}]
                 @@ [fs |-> out.fs, ret |-> out.ret]
    ELSE IF EndsWith(file, JPG) THEN
        [c EXCEPT !.jpg_count = @ + 1] @@ [fs |-> fs_, ret |-> "-"]
    ELSE c @@ [fs |-> fs_, ret |-> "-"]

\* variant: an existing target is not counted
loop_body_existing_uncounted(fs_, file, dry, plat, c) ==
    IF EndsWith(file, MP3) THEN
        LET track_path == os_path_join(<<MUSIC_DIR, file>>)
            track_file == mutagen_File(fs_, track_path)
            out == unflatten_track_file(fs_, track_file, track_path, MUSIC_DIR,
                                        dry, plat)
        IN  IF track_file.obj = "raise"
            THEN [c EXCEPT !.raised = "MutagenError"] @@ [fs |-> fs_, ret |-> "-"]
            ELSE IF out.ret = "KeyError"
            THEN [c EXCEPT !.error_log = @ \cup {file}]
                 @@ [fs |-> out.fs, ret |-> out.ret]
            ELSE IF out.ret = "True"
            THEN [c EXCEPT !.count = @ + 1] @@ [fs |-> out.fs, ret |-> out.ret]
            ELSE IF out.ret = "False"
            THEN c @@ [fs |-> out.fs, ret |-> out.ret]
            ELSE [c EXCEPT !.raised = out.ret] @@ [fs |-> out.fs, ret |-> out.ret]
    ELSE IF EndsWith(file, JPG) THEN
        [c EXCEPT !.jpg_count = @ + 1] @@ [fs |-> fs_, ret |-> "-"]
    ELSE c @@ [fs |-> fs_, ret |-> "-"]

loop_body(fs_, file, dry, plat, c) ==
    IF EndsWith(file, MP3) THEN
        LET track_path == os_path_join(<<MUSIC_DIR, file>>)
            track_file == mutagen_File(fs_, track_path)
            out == unflatten_track_file(fs_, track_file, track_path, MUSIC_DIR,
                                        dry, plat)
        IN  IF track_file.obj = "raise"
            THEN [c EXCEPT !.raised = "MutagenError"] @@ [fs |-> fs_, ret |-> "-"]
            ELSE IF out.ret = "KeyError"
            THEN [c EXCEPT !.error_log = @ \cup {file}]
                 @@ [fs |-> out.fs, ret |-> out.ret]
            ELSE IF out.ret = "True"
            THEN [c EXCEPT !.count = @ + 1] @@ [fs |-> out.fs, ret |-> out.ret]
            ELSE IF out.ret = "False"
            THEN [c EXCEPT !.file_existed_count = @ + 1]
                 @@ [fs |-> out.fs, ret |-> out.ret]
            ELSE [c EXCEPT !.raised = out.ret] @@ [fs |-> out.fs, ret |-> out.ret]
    ELSE IF EndsWith(file, JPG) THEN
        [c EXCEPT !.jpg_count = @ + 1] @@ [fs |-> fs_, ret |-> "-"]
    ELSE c @@ [fs |-> fs_, ret |-> "-"]

----------------------------------------------------------------------------
(* Specification SpecBatch: one run of mutagen_dialect_unflatten over      *)
(* MUSIC_DIR.  os.listdir gives the entries in no particular order: the    *)
(* loop takes any entry of files not yet visited.  The platform is the one *)
(* MUSIC_DIR names; unflatten_track_file never renames onto an existing    *)
(* path, so the platform makes no difference to a run.                     *)
InitBatch ==
    /\ fs \in {MkTree(ks, na[1], na[2], v) :
                  ks \in KindSeqs(MaxAudio),
                  na \in {<<0, FALSE>>, <<2, FALSE>>, <<MaxImages - 1, TRUE>>},
                  v \in Variants}
    /\ os_name = "nt"
    /\ next_id = FreshId(fs)
    /\ fs0 = fs
    /\ b_pc = "idle"
    /\ dry_run = FALSE /\ files = {} /\ todo = {}
    /\ count = 0 /\ jpg_count = 0 /\ file_existed_count = 0
    /\ initial_count = 0 /\ error_log = {} /\ summary = NoSummary
    /\ exc = "-" /\ last_file = <<>> /\ last_ret = "-"
    /\ SanIdle /\ PlanIdle /\ ExecIdle /\ RepIdle

\* lines 101-105
BatchStart ==
    /\ b_pc = "idle"
    /\ dry_run' \in BOOLEAN
    /\ files' = os_listdir(fs, MUSIC_DIR)
    /\ todo' = files'
    /\ count' = 0 /\ jpg_count' = 0 /\ file_existed_count' = 0
    /\ initial_count' = Cardinality(files')
    /\ b_pc' = "loop"
    /\ UNCHANGED <<fsVars, error_log, summary, exc, last_file, last_ret,
                   sanVars, planVars, execVars, repVars>>

\* lines 107-120, one iteration
BatchStep ==
    /\ b_pc = "loop"
    /\ \E file \in todo :
        \E r \in {loop_body(fs, file, dry_run, os_name,
                            [count |-> count, jpg_count |-> jpg_count,
                             file_existed_count |-> file_existed_count,
                             error_log |-> error_log, raised |-> "-"])} :
            /\ fs' = r.fs
            /\ count' = r.count
            /\ jpg_count' = r.jpg_count
            /\ file_existed_count' = r.file_existed_count
            /\ error_log' = r.error_log
            /\ exc' = r.raised
            /\ b_pc' = IF r.raised = "-" THEN "loop" ELSE "raised"
            /\ last_file' = file
            /\ last_ret' = r.ret
            /\ todo' = todo \ {file}
    /\ UNCHANGED <<os_name, next_id, fs0, dry_run, files, initial_count, summary,
                   sanVars, planVars, execVars, repVars>>

\* lines 122-127
BatchFinish ==
    /\ b_pc = "loop"
    /\ todo = {}
    /\ summary' = [TOTAL_FILES |-> initial_count, MP3_FILES_MOVED |-> count,
                   JPG_FILES |-> jpg_count,
                   MP3_FILES_EXISTED |-> file_existed_count]
    /\ b_pc' = "done"
    /\ UNCHANGED <<fsVars, dry_run, files, todo, count, jpg_count,
                   file_existed_count, initial_count, error_log, exc,
                   last_file, last_ret, sanVars, planVars, execVars, repVars>>

NextBatch == BatchStart \/ BatchStep \/ BatchFinish

SpecBatch == InitBatch /\ [][NextBatch]_vars

----------------------------------------------------------------------------
(* fix_missing_file_extensions, lines 144-150, for one entry of an album   *)
(* directory a: the pair printed (none when the name has the extension),   *)
(* the filesystem after it, and whether os.rename failed.                  *)
\* variant: the extension is appended without its dot
repair_track_no_dot(fs_, a, track, dry, plat) ==
    IF EndsWith(track, DOT_MP3)
    THEN [fs |-> fs_, printed |-> {}, err |-> FALSE]
    ELSE LET old == os_path_join(<<a, track>>)
             new == old \o MP3
         IN  IF dry THEN [fs |-> fs_, printed |-> {<<old, new>>}, err |-> FALSE]
             ELSE os_rename(fs_, old, new, plat) @@ [printed |-> {<<old, new>>}]

repair_track(fs_, a, track, dry, plat) ==
    IF EndsWith(track, DOT_MP3)
    THEN [fs |-> fs_, printed |-> {}, err |-> FALSE]
    ELSE LET old == os_path_join(<<a, track>>)
             new == old \o DOT_MP3
         IN  IF dry THEN [fs |-> fs_, printed |-> {<<old, new>>}, err |-> FALSE]
             ELSE os_rename(fs_, old, new, plat) @@ [printed |-> {<<old, new>>}]

----------------------------------------------------------------------------
(* Specification SpecRepair: one run of fix_missing_file_extensions over a *)
(* two-level tree: MUSIC_DIR holds artist directories (and possibly a text *)
(* file), each artist directory holds album directories, each album        *)
(* directory holds files named t, t.mp3 or u.                              *)
AlbumDirs == << <<<<"a">>, <<"x">>>>, <<<<"a">>, <<"y">>>>,
                <<<<"b">>, <<"x">>>>, <<<<"b">>, <<"y">>>>,
                <<<<"c">>, <<"x">>>> >>

LeafNames == <<<<"t">>, <<"t">> \o DOT_MP3, <<"u">>>>

LeafSets == {L \in SUBSET (1..Len(LeafNames)) : Cardinality(L) <= MaxLeaves}

MkAlbums(leaves, txt) ==
    LET n     == Len(leaves)
        dirs  == {ROOT \o <<AlbumDirs[i][1]>> : i \in 1..n}
                 \cup {ROOT \o AlbumDirs[i] : i \in 1..n}
        tracks == {ROOT \o AlbumDirs[i] \o <<LeafNames[j]>> :
                     i \in 1..n, j \in 1..Len(LeafNames)}
        idOf(q) == CHOOSE k \in 1..(n * 10 + Len(LeafNames)) :
                     \E i \in 1..n : \E j \in 1..Len(LeafNames) :
                        /\ k = 10 * i + j
                        /\ q = ROOT \o AlbumDirs[i] \o <<LeafNames[j]>>
        present == {q \in tracks : \E i \in 1..n : \E j \in leaves[i] :
                        q = ROOT \o AlbumDirs[i] \o <<LeafNames[j]>>}
    IN  (ROOT :> DirNode)
        @@ [q \in dirs |-> DirNode]
        @@ [q \in present |-> FileNode(idOf(q), "A")]
        @@ (IF txt THEN (ROOT \o <<TextName>>) :> FileNode(20, "txt") ELSE <<>>)

InitRepair ==
    /\ fs \in {MkAlbums(leaves, txt) :
                  leaves \in UNION {[1..k -> LeafSets] : k \in 0..MaxAlbums},
                  txt \in BOOLEAN}
    /\ os_name \in {"posix", "nt"}
    /\ next_id = FreshId(fs)
    /\ fs0 = fs
    /\ r_pc = "idle"
    /\ r_dry = FALSE /\ r_dirs = {} /\ r_p = <<>> /\ r_albums = {}
    /\ r_a = <<>> /\ r_tracks = {} /\ reported = {} /\ r_exc = "-"
    /\ SanIdle /\ PlanIdle /\ ExecIdle /\ BatchIdle

\* lines 137-138
RepairStart ==
    /\ r_pc = "idle"
    /\ r_dry' \in BOOLEAN
    /\ r_dirs' = {f \in os_listdir(fs, MUSIC_DIR) :
                     os_path_isdir(fs, os_path_join(<<MUSIC_DIR, f>>))}
    /\ r_pc' = "dirs"
    /\ UNCHANGED <<fsVars, r_p, r_albums, r_a, r_tracks, reported, r_exc,
                   sanVars, planVars, execVars, batchVars>>

\* lines 139-141: the next artist directory
RepairDir ==
    /\ r_pc = "dirs"
    /\ \E d \in r_dirs :
          /\ r_p' = os_path_join(<<MUSIC_DIR, d>>)
          /\ r_albums' = os_listdir(fs, r_p')
          /\ r_dirs' = r_dirs \ {d}
    /\ r_pc' = "albums"
    /\ UNCHANGED <<fsVars, r_dry, r_a, r_tracks, reported, r_exc,
                   sanVars, planVars, execVars, batchVars>>

\* lines 141-143: the next album of the artist directory; os.listdir of an
\* entry that is not a directory raises
RepairAlbum ==
    /\ r_pc = "albums"
    /\ \E album \in r_albums :
          /\ r_a' = os_path_join(<<r_p, album>>)
          /\ r_albums' = r_albums \ {album}
          /\ IF os_path_isdir(fs, r_a')
             THEN r_tracks' = os_listdir(fs, r_a') /\ r_pc' = "tracks"
                  /\ r_exc' = r_exc
             ELSE r_tracks' = {} /\ r_pc' = "raised"
                  /\ r_exc' = "NotADirectoryError"
    /\ UNCHANGED <<fsVars, r_dry, r_dirs, r_p, reported,
                   sanVars, planVars, execVars, batchVars>>

\* lines 143-150: the next entry of the album directory
RepairTrack ==
    /\ r_pc = "tracks"
    /\ \E track \in r_tracks :
        \E r \in {repair_track(fs, r_a, track, r_dry, os_name)} :
          /\ fs' = r.fs
          /\ reported' = reported \cup r.printed
          /\ r_pc' = IF r.err THEN "raised" ELSE "tracks"
          /\ r_exc' = IF r.err THEN "OSError" ELSE r_exc
          /\ r_tracks' = r_tracks \ {track}
    /\ UNCHANGED <<os_name, next_id, fs0, r_dry, r_dirs, r_p, r_albums, r_a,
                   sanVars, planVars, execVars, batchVars>>

\* the loop over the entries of an album directory ends
RepairTracksDone ==
    /\ r_pc = "tracks" /\ r_tracks = {}
    /\ r_pc' = "albums"
    /\ UNCHANGED <<fsVars, r_dry, r_dirs, r_p, r_albums, r_a, r_tracks, reported,
                   r_exc, sanVars, planVars, execVars, batchVars>>

\* the loop over the albums of an artist directory ends
RepairAlbumsDone ==
    /\ r_pc = "albums" /\ r_albums = {}
    /\ r_pc' = "dirs"
    /\ UNCHANGED <<fsVars, r_dry, r_dirs, r_p, r_albums, r_a, r_tracks, reported,
                   r_exc, sanVars, planVars, execVars, batchVars>>

\* the loop over the artist directories ends and the function returns
RepairFinish ==
    /\ r_pc = "dirs" /\ r_dirs = {}
    /\ r_pc' = "done"
    /\ UNCHANGED <<fsVars, r_dry, r_dirs, r_p, r_albums, r_a, r_tracks, reported,
                   r_exc, sanVars, planVars, execVars, batchVars>>

NextRepair ==
    \/ RepairStart \/ RepairDir \/ RepairAlbum \/ RepairTrack
    \/ RepairTracksDone \/ RepairAlbumsDone \/ RepairFinish

SpecRepair == InitRepair /\ [][NextRepair]_vars

----------------------------------------------------------------------------
(* Properties of the sanitizer and the path planner *)
Reserved == {"/", "?", ":", "\""}

HasChar(s, C)  == \E i \in 1..Len(s) : s[i] \in C
NoReserved(s)  == ~HasChar(s, Reserved)
NoEdgeSpace(s) == s = <<>> \/ (~IsSpace(s[1]) /\ ~IsSpace(s[Len(s)]))

\* t is s without its leading and trailing whitespace
IsTrimOf(t, s) ==
    /\ NoEdgeSpace(t)
    /\ \E i \in 0..Len(s) : \E j \in i..Len(s) :
          /\ t = SubSeq(s, i + 1, j)
          /\ \A k \in (1..i) \cup ((j + 1)..Len(s)) : IsSpace(s[k])

\* C9 as stated: sanitizing an already sanitized text changes nothing.
C9_Original == san_pc = "twice" => san_twice = san_once

\* C9 as amended: a sanitized text holds no reserved character; sanitizing
\* it again strips its leading and trailing whitespace and changes nothing
\* else, so the second application is the identity whenever the first
\* result has no leading or trailing whitespace, which is the case for
\* every raw text without ? and ".
C9_SanitizeTwice ==
    /\ san_pc # "raw" => NoReserved(san_once)
    /\ san_pc # "raw" /\ ~HasChar(san_raw, {"?", "\""}) => NoEdgeSpace(san_once)
    /\ san_pc = "twice" =>
          /\ IsTrimOf(san_twice, san_once)
          /\ NoEdgeSpace(san_once) => san_twice = san_once

C9_Witness ==
    /\ san_pc = "twice"
    /\ HasChar(san_raw, Reserved) /\ HasChar(san_raw, {" "})
    /\ san_once # san_raw
    /\ san_twice = san_once

NonEmptyParts(parts) == SelectSeq(parts, LAMBDA q : q # <<>>)

\* s with the characters of every occurrence of pat left out
Occurrences(s, pat) ==
    {i \in 1..(Len(s) - Len(pat) + 1) : SubSeq(s, i, i + Len(pat) - 1) = pat}

RECURSIVE KeepFrom(_, _, _)
KeepFrom(s, drop, i) ==
    IF i > Len(s) THEN <<>>
    ELSE (IF i \in drop THEN <<>> ELSE <<s[i]>>) \o KeepFrom(s, drop, i + 1)

WithoutOccurrences(s, pat) ==
    KeepFrom(s, {j \in 1..Len(s) : \E i \in Occurrences(s, pat) :
                                      i <= j /\ j < i + Len(pat)}, 1)

ExpectedAlbum(tags) ==
    IF ALBUM_TITLE \notin DOMAIN tags THEN UNKNOWN_ALBUM
    ELSE IF sanitize_file_name_text(tags[ALBUM_TITLE]) = <<>> THEN UNKNOWN_ALBUM
    ELSE WithoutOccurrences(sanitize_file_name_text(tags[ALBUM_TITLE]), DOT_MP3)

ExpectedTitle(tags) ==
    IF TRACK_TITLE \notin DOMAIN tags THEN <<>>
    ELSE sanitize_file_name_text(tags[TRACK_TITLE])

DaftPunkPath ==
    MUSIC_DIR \o <<"/">> \o DaftPunk \o <<"/">> \o Discovery
              \o <<"/">> \o OneMoreTime \o DOT_MP3

Segments == <<plan_out.artist, plan_out.album_title, plan_out.track_title>>

\* C8 as stated: no segment of a planned path holds a reserved character
\* or has leading or trailing whitespace.
C8_Original ==
    plan_pc = "planned" /\ plan_out.exc = "none" =>
        \A i \in 1..3 : NoReserved(Segments[i]) /\ NoEdgeSpace(Segments[i])

\* C8 as amended: no segment of a planned path holds a reserved character;
\* a segment has no leading or trailing whitespace when its raw tag holds
\* no ? and no " and, for the album, the sanitized tag holds no ".mp3".
C8_Segments ==
    plan_pc = "planned" /\ plan_out.exc = "none" =>
        /\ \A i \in 1..3 : NoReserved(Segments[i])
        /\ \A k \in {ARTIST, TRACK_TITLE} :
              k \in DOMAIN plan_tags /\ ~HasChar(plan_tags[k], {"?", "\""})
                 => NoEdgeSpace(IF k = ARTIST THEN plan_out.artist
                                ELSE plan_out.track_title)
        /\ ALBUM_TITLE \in DOMAIN plan_tags
              /\ ~HasChar(plan_tags[ALBUM_TITLE], {"?", "\""})
              /\ Occurrences(sanitize_file_name_text(plan_tags[ALBUM_TITLE]),
                             DOT_MP3) = {}
              => NoEdgeSpace(plan_out.album_title)

C8_Witness ==
    /\ plan_pc = "planned" /\ plan_out.exc = "none"
    /\ HasChar(plan_tags[ARTIST], {"/"}) /\ HasChar(plan_tags[ARTIST], {":"})
    /\ IsSpace(plan_tags[ARTIST][1])
    /\ plan_out.artist = <<"-", "-">>

----------------------------------------------------------------------------
(* Properties of the executor *)
HasArtist(c) == c.track.obj = "File" /\ ARTIST \in DOMAIN c.track.tags

\* the target path of a recorded call, as components
TargetOf(c) == Components(unflatten_paths(c.track.tags, MUSIC_DIR).track_new_path)

\* what the recorded call returns when made without dry_run from the state
\* it was made in
NonDryRet(c) ==
    unflatten_track_file(c.before, c.track, PathText(c.src), MUSIC_DIR,
                         FALSE, os_name).ret

SkippedUntouched ==
    call.made /\ HasArtist(call) /\ TargetOf(call) \in DOMAIN call.before =>
        call.ret = "False" /\ fs = call.before

NoFileOverwritten ==
    \A q \in DOMAIN fs :
        fs[q].kind = "file" => (q \notin DOMAIN fs' \/ fs'[q] = fs[q])

\* C1: a call whose target path already exists returns False and leaves the
\* filesystem as it was; and no step of any sequence of calls replaces a
\* file that exists at some path by another file.
C1_CollisionSkips == [](SkippedUntouched) /\ [][NoFileOverwritten]_vars

C1_Witness ==
    /\ call.made /\ ~call.dry /\ HasArtist(call)
    /\ TargetOf(call) \in DOMAIN call.before
    /\ call.ret = "False"
    /\ prev.made /\ prev.ret = "True" /\ ~prev.dry

Moved(c) == c.made /\ ~c.dry /\ c.ret = "True"

\* C2: a non-dry call on a track whose target is free and whose directories
\* can be made returns True; the source path is then gone and the file is
\* at the target path.  A second non-dry call for the same source path and
\* tags, made after an identical file was supplied again at the source
\* path, returns False and changes nothing: the file moved first is still
\* at the target and the new file still at the source path.
C2_Idempotent ==
    /\ call.made /\ ~call.dry /\ HasArtist(call)
          /\ TargetOf(call) \notin DOMAIN call.before /\ call.ret # "OSError"
          => call.ret = "True"
    /\ Moved(call) =>
          /\ TargetOf(call) \in DOMAIN fs
          /\ fs[TargetOf(call)] = call.before[call.src]
          /\ ~resupplied => call.src \notin DOMAIN fs
    /\ Moved(prev) /\ call.made /\ ~call.dry /\ call.after_resupply
          /\ call.src = prev.src /\ call.track = prev.track
          => /\ call.ret = "False"
             /\ fs = call.before
             /\ fs[TargetOf(call)] = prev.before[prev.src]
             /\ call.src \in DOMAIN fs
             /\ fs[call.src].id # fs[TargetOf(call)].id
             /\ fs[call.src].meta = fs[TargetOf(call)].meta

C2_Witness ==
    /\ Moved(prev) /\ call.made /\ ~call.dry /\ call.after_resupply
    /\ call.src = prev.src /\ call.track = prev.track
    /\ call.ret = "False"

\* C5 as stated: a dry-run call changes nothing on the filesystem and gives
\* the outcome the non-dry call gives from the same state.
C5_Original ==
    call.made /\ call.dry => fs = call.before /\ call.ret = NonDryRet(call)

\* C5 as amended: a dry-run call changes nothing on the filesystem; it
\* gives the outcome of the non-dry call from the same state whenever that
\* call ends without a filesystem error, and returns True where the
\* non-dry call fails in its directory creation or rename.
C5_DryRun ==
    call.made /\ call.dry =>
        /\ fs = call.before
        /\ NonDryRet(call) # "OSError" => call.ret = NonDryRet(call)
        /\ NonDryRet(call) = "OSError" => call.ret = "True"

C5_Witness ==
    /\ call.made /\ call.dry /\ call.ret = "True"
    /\ NonDryRet(call) = "True"
    /\ TargetOf(call) \notin DOMAIN fs

----------------------------------------------------------------------------
(* Properties of the batch runner *)
Entries(fs_) == {q \in DOMAIN fs_ : Len(q) = Len(ROOT) + 1 /\ Parent(q) = ROOT}

LacksArtist(fs_, file) ==
    LET t == mutagen_File(fs_, os_path_join(<<MUSIC_DIR, file>>))
    IN  t.obj = "File" /\ ARTIST \notin DOMAIN t.tags

MissingArtistStep ==
    b_pc = "loop" /\ todo' # todo /\ EndsWith(last_file', MP3)
        /\ LacksArtist(fs, last_file')
    => /\ last_ret' = "KeyError"
       /\ fs' = fs
       /\ count' = count /\ file_existed_count' = file_existed_count
       /\ jpg_count' = jpg_count
       /\ last_file' \notin error_log /\ error_log' = error_log \cup {last_file'}
       /\ b_pc' = "loop" /\ exc' = "-"
       /\ todo' = todo \ {last_file'}

\* C3: an audio entry whose tags have no artist key makes
\* unflatten_track_file fail with KeyError with the filesystem untouched;
\* the batch logs the error, counts the file neither as moved nor as
\* existing, and goes on with the entries left.
C3_MissingArtist == [][MissingArtistStep]_vars

C3_Witness ==
    /\ b_pc = "done" /\ ~dry_run
    /\ error_log # {} /\ count > 0
    /\ last_ret = "True"
    /\ \A f \in error_log : ROOT \o <<f>> \in DOMAIN fs

Escaping == {"AttributeError", "TypeError", "OSError", "MutagenError"}

\* C4 as stated: no exception leaves a batch run.
C4_Original == b_pc # "raised"

\* C4 as amended: the batch runner catches KeyError only.  A missing artist
\* key is logged and the loop goes on; a file mutagen cannot parse (File
\* returning None, or an object whose tags are None) and a failing
\* directory creation or rename raise an exception that leaves the run:
\* the entries left are not visited and no summary is emitted.
C4_OnlyKeyErrorCaught ==
    /\ b_pc = "raised" =>
          /\ exc \in Escaping
          /\ summary = NoSummary
          /\ last_file \notin error_log
    /\ last_ret = "KeyError" => b_pc \in {"loop", "done"} /\ last_file \in error_log
    /\ last_ret \in Escaping => b_pc = "raised" /\ exc = last_ret
    /\ b_pc \in {"loop", "done"} =>
          \A f \in files \ todo :
              EndsWith(f, MP3) => fs0[ROOT \o <<f>>].meta \notin {"NoTags", "None"}
    /\ b_pc = "done" => todo = {} /\ summary # NoSummary

C4_Witness ==
    /\ b_pc = "raised" /\ exc = "OSError"
    /\ error_log # {}
    /\ todo # {}

AudioEntries(fs_) == {q \in Entries(fs_) : EndsWith(q[Len(q)], MP3)}
ImageEntries(fs_) == {q \in Entries(fs_) : EndsWith(q[Len(q)], JPG)}

\* C6: when the run ends, total is the number of entries listed, every
\* audio entry is exactly one of moved, existing and failed (logged), the
\* image counter is the number of image entries, and other entries count
\* nowhere; three audio files (two with tags for distinct targets, one
\* without artist) and two images give moved 2, failed 1, existing 0,
\* images 2, total 5.
C6_Counters ==
    /\ b_pc = "loop" =>
          /\ count + file_existed_count + Cardinality(error_log)
                = Cardinality({f \in files \ todo : EndsWith(f, MP3)})
          /\ jpg_count = Cardinality({f \in files \ todo : EndsWith(f, JPG)})
    /\ b_pc = "done" =>
          /\ summary.TOTAL_FILES = Cardinality(Entries(fs0))
          /\ summary.MP3_FILES_MOVED + summary.MP3_FILES_EXISTED
                + Cardinality(error_log) = Cardinality(AudioEntries(fs0))
          /\ summary.JPG_FILES = Cardinality(ImageEntries(fs0))
          /\ summary.MP3_FILES_MOVED >= 0 /\ summary.MP3_FILES_EXISTED >= 0
          /\ fs0 = MkTree(<<1, 2, 3>>, 2, FALSE, "clean") =>
                /\ summary = [TOTAL_FILES |-> 5, MP3_FILES_MOVED |-> 2,
                               JPG_FILES |-> 2, MP3_FILES_EXISTED |-> 0]
                /\ Cardinality(error_log) = 1

C6_Witness ==
    /\ b_pc = "done"
    /\ fs0 = MkTree(<<1, 2, 3>>, 2, FALSE, "clean")
    /\ summary.MP3_FILES_MOVED = 2 /\ summary.TOTAL_FILES = 5

----------------------------------------------------------------------------
(* Properties of the extension repair *)
Leaves(fs_)  == {q \in DOMAIN fs_ : Len(q) = Len(ROOT) + 3}
NeedsExt(q)  == ~EndsWith(q[Len(q)], DOT_MP3)
WithExt(q)   == Parent(q) \o <<q[Len(q)] \o DOT_MP3>>

\* the leaf without extension whose new name is the name of leaf q
Shadows(fs_, q) == {o \in Leaves(fs_) : NeedsExt(o) /\ WithExt(o) = q}

ExpectedPairs ==
    {<<PathText(q), PathText(WithExt(q))>> : q \in {o \in Leaves(fs0) : NeedsExt(o)}}

RenamedAll ==
    \A q \in Leaves(fs0) :
        NeedsExt(q) => /\ q \notin DOMAIN fs
                       /\ WithExt(q) \in DOMAIN fs
                       /\ fs[WithExt(q)] = fs0[q]

DryReports == r_pc = "done" /\ r_dry => fs = fs0 /\ reported = ExpectedPairs

\* C10 as stated: after a non-dry repair every leaf without the extension
\* is at its name plus ".mp3" and gone from its old path, every leaf that
\* had the extension is untouched and every leaf name ends with ".mp3"; a
\* dry run reports the pairs and changes nothing.
C10_Original ==
    /\ r_pc = "done" /\ ~r_dry =>
          /\ RenamedAll
          /\ \A q \in Leaves(fs0) :
                ~NeedsExt(q) => q \in DOMAIN fs /\ fs[q] = fs0[q]
          /\ \A q \in Leaves(fs) : ~NeedsExt(q)
    /\ DryReports

\* C10 as amended: as stated, except that a leaf name.mp3 is untouched only
\* when no leaf called name is beside it.  The repair checks no collision:
\* where both exist, the rename of name replaces name.mp3 on posix, and
\* fails on nt, where the repair then stops with the error.
C10_Repair ==
    /\ r_pc = "done" /\ ~r_dry =>
          /\ RenamedAll
          /\ \A q \in Leaves(fs0) :
                ~NeedsExt(q) =>
                    /\ q \in DOMAIN fs
                    /\ Shadows(fs0, q) = {} => fs[q] = fs0[q]
                    /\ Shadows(fs0, q) # {} =>
                          os_name = "posix" /\ fs[q] # fs0[q]
          /\ \A q \in Leaves(fs) : ~NeedsExt(q)
          /\ reported = ExpectedPairs
    /\ DryReports
    /\ r_pc = "raised" =>
          /\ os_name = "nt" /\ ~r_dry /\ r_exc = "OSError"
          /\ \E q \in Leaves(fs0) : ~NeedsExt(q) /\ Shadows(fs0, q) # {}

C10_Witness ==
    /\ r_pc = "done" /\ ~r_dry
    /\ \E q \in Leaves(fs0) : NeedsExt(q) /\ fs[WithExt(q)] = fs0[q]
    /\ \E q \in Leaves(fs0) : ~NeedsExt(q) /\ fs[q] = fs0[q]

====
